---- MODULE Spec2Model ----
(***************************************************************************)
(* Model of the signal sanitizer of app/signal_logic.py                    *)
(* (compute_risk_reward, sanitize_signal_response), of its caller          *)
(* LLMClient.generate_signal of app/llm.py and of the POST /signal handler *)
(* of app/main.py.                                                         *)
(*                                                                         *)
(* Python values are modelled as follows.                                  *)
(*   float / int : a record [k, n, d]: k = "fin" is the exact rational n/d *)
(*                 in lowest terms (d > 0), k = "nan" is NaN, k = "inf" is *)
(*                 +inf (n = 1) or -inf (n = -1).  Rounding of binary      *)
(*                 floating point is not modelled: arithmetic is exact.    *)
(*   str         : a sequence of one-character strings.                    *)
(*   a dict value: a record [t, v, s]: t = "num" holds the number v,       *)
(*                 t = "str" holds the string s, t = "null" is None.       *)
(*   a dict      : a function from a finite set of keys to dict values.    *)
(*                                                                         *)
(* A Python local that is read more than once is bound by value, as the    *)
(* element of a one-element set (CHOOSE r \in {e(x) : x \in {v}} : TRUE), *)
(* so that it is computed once, as in the code.                            *)
(***************************************************************************)
EXTENDS Integers, Sequences, FiniteSets, TLC

\* raw, user_sl_pct, cfg : the arguments of a call of sanitize_signal_response
\*                          (raw is also the JSON object the provider returns)
\* args                   : the arguments of a call of compute_risk_reward
\* pc, result             : the position of the caller and how the call ended
\* settings, llm          : the Settings and the LLM client injected into the
\*                          POST /signal handler
\* market_data            : what fetch_market_data gave the handler
\* llm_calls              : the calls of llm.generate_signal made so far
\* response               : the HTTP response of the handler
VARIABLES raw, user_sl_pct, cfg, args, pc, result,
          settings, llm, market_data, llm_calls, response

handler_vars == <<settings, llm, market_data, llm_calls, response>>

vars == <<raw, user_sl_pct, cfg, args, pc, result, handler_vars>>

---------------------------------------------------------------------------
(* Numbers *)

Abs(x) == IF x < 0 THEN -x ELSE x

Gcd[a \in Nat, b \in Nat] == IF b = 0 THEN a ELSE Gcd[b, a % b]

\* The rational n/d (d # 0) in lowest terms with a positive denominator.
Rat[n \in Int, d \in Int] ==
    LET g == Gcd[Abs(n), Abs(d)]
        s == IF d < 0 THEN -1 ELSE 1
    IN  [k |-> "fin", n |-> (s * n) \div g, d |-> (s * d) \div g]

F(n) == Rat[n, 1]

\* The float values.  The operations on them are functions, which take their
\* arguments by value.
Floats == [k : {"fin", "nan", "inf"}, n : Int, d : Nat]

NaN == [k |-> "nan", n |-> 0, d |-> 0]

Inf(sign) == [k |-> "inf", n |-> sign, d |-> 0]

IsNaN(a) == a.k = "nan"

IsZero(a) == a.k = "fin" /\ a.n = 0

Sign(a) == IF a.n > 0 THEN 1 ELSE IF a.n < 0 THEN -1 ELSE 0

\* a < b on floats: every comparison with NaN is false.
Lt[a \in Floats, b \in Floats] ==
    /\ ~IsNaN(a)
    /\ ~IsNaN(b)
    /\ CASE a.k = "inf" -> a.n = -1 /\ ~(b.k = "inf" /\ b.n = -1)
         [] b.k = "inf" -> b.n = 1
         [] OTHER       -> a.n * b.d < b.n * a.d

Gt(a, b) == Lt[b, a]

\* a <= b on floats.
Le[a \in Floats, b \in Floats] == ~IsNaN(a) /\ ~IsNaN(b) /\ ~Lt[b, a]

\* a - b on floats.
Sub[a \in Floats, b \in Floats] ==
    CASE IsNaN(a) \/ IsNaN(b)          -> NaN
      [] a.k = "inf" /\ b.k = "inf"    -> IF a.n = b.n THEN NaN ELSE a
      [] a.k = "inf"                   -> a
      [] b.k = "inf"                   -> Inf(-b.n)
      [] OTHER                         -> Rat[a.n * b.d - b.n * a.d, a.d * b.d]

\* a * b on floats.
Mul[a \in Floats, b \in Floats] ==
    CASE IsNaN(a) \/ IsNaN(b)          -> NaN
      [] a.k = "inf" \/ b.k = "inf"    ->
            IF Sign(a) * Sign(b) = 0 THEN NaN ELSE Inf(Sign(a) * Sign(b))
      [] OTHER                         -> Rat[a.n * b.n, a.d * b.d]

\* a / b on floats, for b # 0 (Python raises ZeroDivisionError on b = 0:
\* the callers test IsZero(b) first).
Div[a \in Floats, b \in Floats] ==
    CASE IsNaN(a) \/ IsNaN(b)          -> NaN
      [] a.k = "inf" /\ b.k = "inf"    -> NaN
      [] a.k = "inf"                   -> Inf(Sign(a) * Sign(b))
      [] b.k = "inf"                   -> F(0)
      [] OTHER                         -> Rat[a.n * b.d, a.d * b.n]

\* Python's max(a, b) and min(a, b): the first argument stays unless the
\* second one compares strictly greater (smaller).
PyMax[a \in Floats, b \in Floats] == IF Gt(b, a) THEN b ELSE a

PyMin[a \in Floats, b \in Floats] == IF Lt[b, a] THEN b ELSE a

---------------------------------------------------------------------------
(* Dict values *)

Num(f) == [t |-> "num", v |-> f, s |-> <<>>]

Str(chars) == [t |-> "str", v |-> F(0), s |-> chars]

None == [t |-> "null", v |-> F(0), s |-> <<>>]

\* A list of strings held in a dict, such as the violations of a sanitized
\* output.
List(tags) == [t |-> "list", v |-> F(0), s |-> tags]

\* raw.get(key, default)
Get(d, key, default) == IF key \in DOMAIN d THEN d[key] ELSE default

---------------------------------------------------------------------------
(* Strings: str(), str.upper(), float() *)

LowerLetters ==
    <<"a", "b", "c", "d", "e", "f", "g", "h", "i", "j", "k", "l", "m",
      "n", "o", "p", "q", "r", "s", "t", "u", "v", "w", "x", "y", "z">>

UpperLetters ==
    <<"A", "B", "C", "D", "E", "F", "G", "H", "I", "J", "K", "L", "M",
      "N", "O", "P", "Q", "R", "S", "T", "U", "V", "W", "X", "Y", "Z">>

DigitChars == <<"0", "1", "2", "3", "4", "5", "6", "7", "8", "9">>

UpperChar(c) ==
    IF \E i \in DOMAIN LowerLetters : LowerLetters[i] = c
    THEN UpperLetters[CHOOSE i \in DOMAIN LowerLetters : LowerLetters[i] = c]
    ELSE c

\* str.upper()
Upper(chars) == [i \in DOMAIN chars |-> UpperChar(chars[i])]

IsDigit(c) == \E i \in DOMAIN DigitChars : DigitChars[i] = c

DigitVal(c) == (CHOOSE i \in DOMAIN DigitChars : DigitChars[i] = c) - 1

RECURSIVE NatToStr(_)
NatToStr(n) ==
    IF n < 10 THEN <<DigitChars[n + 1]>>
    ELSE NatToStr(n \div 10) \o <<DigitChars[(n % 10) + 1]>>

\* The digits after the decimal point of r/d (0 <= r < d), at most left of them.
RECURSIVE FracToStr(_, _, _)
FracToStr(r, d, left) ==
    IF r = 0 \/ left = 0 THEN <<>>
    ELSE <<DigitChars[((r * 10) \div d) + 1]>> \o FracToStr((r * 10) % d, d, left - 1)

\* str() of a number.  A number with denominator 1 stands for a Python int
\* ("100"); other finite values print as a decimal of at most 17 places.
NumToStr(a) ==
    CASE a.k = "nan" -> <<"n", "a", "n">>
      [] a.k = "inf" -> IF a.n > 0 THEN <<"i", "n", "f">> ELSE <<"-", "i", "n", "f">>
      [] OTHER       ->
            (IF a.n < 0 THEN <<"-">> ELSE <<>>)
            \o NatToStr(Abs(a.n) \div a.d)
            \o (IF a.d = 1 THEN <<>>
                ELSE <<".">> \o FracToStr(Abs(a.n) % a.d, a.d, 17))

\* str(x) of a dict value.
PyStr(x) ==
    CASE x.t = "str"  -> x.s
      [] x.t = "null" -> <<"N", "o", "n", "e">>
      [] OTHER        -> NumToStr(x.v)

\* str.strip() for blanks.
RECURSIVE Strip(_)
Strip(chars) ==
    IF chars = <<>> THEN chars
    ELSE IF Head(chars) = " " THEN Strip(Tail(chars))
    ELSE IF chars[Len(chars)] = " " THEN Strip(SubSeq(chars, 1, Len(chars) - 1))
    ELSE chars

ParseFail == [ok |-> FALSE, v |-> F(0)]

ParseOk(f) == [ok |-> TRUE, v |-> f]

\* Digits with at most one decimal point, read from position i on; n/d is
\* the value read so far.
RECURSIVE ParseDigits(_, _, _, _, _)
ParseDigits(chars, i, n, d, dot) ==
    IF i > Len(chars) THEN ParseOk(Rat[n, d])
    ELSE IF chars[i] = "." THEN
        IF dot THEN ParseFail ELSE ParseDigits(chars, i + 1, n, d, TRUE)
    ELSE IF IsDigit(chars[i]) THEN
        ParseDigits(chars, i + 1, n * 10 + DigitVal(chars[i]),
                    IF dot THEN d * 10 ELSE d, dot)
    ELSE ParseFail

\* An unsigned float literal: "nan", "inf", "infinity" in any case, or a
\* decimal with at least one digit.  (Exponents and digit-group underscores,
\* which float() also reads, are outside the alphabet of the model.)
ParseUnsigned(chars) ==
    LET up == Upper(chars)
    IN  CASE up = <<"N", "A", "N">> -> ParseOk(NaN)
          [] up = <<"I", "N", "F">> -> ParseOk(Inf(1))
          [] up = <<"I", "N", "F", "I", "N", "I", "T", "Y">> -> ParseOk(Inf(1))
          [] OTHER ->
                IF \E i \in DOMAIN chars : IsDigit(chars[i])
                THEN ParseDigits(chars, 1, 0, 1, FALSE)
                ELSE ParseFail

Negate(p) == IF p.ok THEN ParseOk(Sub[F(0), p.v]) ELSE p

\* float(s) of a string: ok = FALSE stands for ValueError.
ParseFloat(chars) ==
    LET body == Strip(chars)
    IN  IF body = <<>> THEN ParseFail
        ELSE IF Head(body) = "-" THEN Negate(ParseUnsigned(Tail(body)))
        ELSE IF Head(body) = "+" THEN ParseUnsigned(Tail(body))
        ELSE ParseUnsigned(body)

\* float(x) of a dict value: ok = FALSE stands for the TypeError (None) or
\* ValueError (malformed string) that every caller catches together.
PyFloat(x) ==
    CASE x.t = "num" -> ParseOk(x.v)
      [] x.t = "str" -> ParseFloat(x.s)
      [] OTHER       -> ParseFail

---------------------------------------------------------------------------
(* app/signal_logic.py *)

LONG == <<"L", "O", "N", "G">>

SHORT == <<"S", "H", "O", "R", "T">>

NEUTRAL == <<"N", "E", "U", "T", "R", "A", "L">>

DecisionKinds == {LONG, SHORT, NEUTRAL}

\* The default of raw.get("confidence_threshold", 70.0).
DefaultConfidenceThreshold == 70

\* The accepted risk/reward range of "rr_final < 1 or rr_final > 10".
RrMin == 1

RrMax == 10

\* The floor of max(user_sl_pct, 0.01).
SlFloor == Rat[1, 100]

\* The keyword defaults of sanitize_signal_response.
DefaultMinSlFactor == Rat[1, 2]

DefaultMaxSlFactor == Rat[3, 2]

DefaultMinPositionSizePct == F(50)

DefaultMaxPositionSizePct == F(150)

OutputKeys ==
    {"decision", "confidence_score", "entry_price", "sl_price", "tp_price",
     "risk_reward_ratio", "reasoning", "adjusted_sl_percentage",
     "position_size_pct_of_equity", "violations"}

\* How a call ends: it returns a dict or raises an exception.
Return(dict) == [kind |-> "return", value |-> dict]

Raise(exception) == [kind |-> "raise", value |-> exception]

\* compute_risk_reward: None, or the ratio as a number.  risk > 0 holds at
\* the division, so it cannot raise ZeroDivisionError.
compute_risk_reward(decision, entry, sl, tp) ==
    LET risk   == IF decision = LONG THEN Sub[entry, sl] ELSE Sub[sl, entry]
        reward == IF decision = LONG THEN Sub[tp, entry] ELSE Sub[entry, tp]
    IN  IF decision \notin {LONG, SHORT} THEN None
        ELSE IF Le[risk, F(0)] \/ Le[reward, F(0)] THEN None
        ELSE Num(Div[reward, risk])

\* Mutant of NormalizeDecision: the decision is compared as written.
NormalizeDecision_CaseSensitive(d) == PyStr(Get(d, "decision", Str(<<>>)))

\* decision = str(raw.get("decision", "")).upper()
NormalizeDecision(d) == Upper(PyStr(Get(d, "decision", Str(<<>>))))

\* Mutant of ConfidenceVal: an unparsable confidence counts as full confidence.
ConfidenceVal_FailOpen(confidence) ==
    LET p == PyFloat(confidence) IN IF p.ok THEN p.v ELSE F(100)

\* Mutant of ConfidenceVal: an unparsable confidence is flagged as -1.
ConfidenceVal_FailNegative(confidence) ==
    LET p == PyFloat(confidence) IN IF p.ok THEN p.v ELSE F(-1)

\* try: confidence_val = float(confidence) / except: confidence_val = 0.0
ConfidenceVal(confidence) ==
    LET p == PyFloat(confidence) IN IF p.ok THEN p.v ELSE F(0)

\* Mutant of LongBoundsOk: only the stop-loss side is tested.
LongBoundsOk_StopOnly(sl_f, entry_f, tp_f) == Lt[sl_f, entry_f]

\* Mutant of LongBoundsOk: the ordering is not strict.
LongBoundsOk_NonStrict(sl_f, entry_f, tp_f) == Le[sl_f, entry_f] /\ Le[entry_f, tp_f]

\* sl_f < entry_f < tp_f
LongBoundsOk(sl_f, entry_f, tp_f) == Lt[sl_f, entry_f] /\ Lt[entry_f, tp_f]

\* tp_f < entry_f < sl_f
ShortBoundsOk(sl_f, entry_f, tp_f) == Lt[tp_f, entry_f] /\ Lt[entry_f, sl_f]

\* not (rr_final < 1 or rr_final > 10)
RrInRange(rr_final) == ~(Lt[rr_final, F(RrMin)] \/ Gt(rr_final, F(RrMax)))

\* Mutant of PriceGates: a failed bounds check records its tag but leaves the
\* decision as it is, so the risk/reward check still runs.
PriceGates_KeepGoing(decision, entry, sl, tp, rr, violations) ==
    LET RiskReward(rr_final, tags) ==
            IF rr_final = None
            THEN [decision |-> NEUTRAL, rr |-> rr_final, violations |-> Append(tags, "rr_calc")]
            ELSE IF ~RrInRange(rr_final.v)
            THEN [decision |-> NEUTRAL, rr |-> rr_final, violations |-> Append(tags, "rr_range")]
            ELSE [decision |-> decision, rr |-> rr_final, violations |-> tags]
        Parsed(pe, ps, pt) ==
            IF ~(pe.ok /\ ps.ok /\ pt.ok)
            THEN [decision |-> NEUTRAL, rr |-> rr,
                  violations |-> Append(violations, "invalid_numbers")]
            ELSE CHOOSE g \in {RiskReward(rr_final, tags) :
                    rr_final \in {compute_risk_reward(decision, pe.v, ps.v, pt.v)},
                    tags \in {IF decision = LONG /\ ~LongBoundsOk(ps.v, pe.v, pt.v)
                              THEN Append(violations, "long_bounds")
                              ELSE IF decision = SHORT /\ ~ShortBoundsOk(ps.v, pe.v, pt.v)
                              THEN Append(violations, "short_bounds")
                              ELSE violations}} : TRUE
    IN  IF decision = NEUTRAL
        THEN [decision |-> NEUTRAL, rr |-> None, violations |-> violations]
        ELSE CHOOSE g \in {Parsed(pe, ps, pt) :
                             pe \in {PyFloat(entry)}, ps \in {PyFloat(sl)}, pt \in {PyFloat(tp)}} : TRUE

\* The block "if decision != NEUTRAL: ... else: rr = None" on the decision
\* left by the confidence check: the decision, rr and violations after it.
\* In the except branch rr keeps the value read from raw.  (The local
\* operators take the parsed prices and the ratio by value: each is computed
\* once.)
PriceGates(decision, entry, sl, tp, rr, violations) ==
    LET Neutral(rr_out, tag) ==
            [decision |-> NEUTRAL, rr |-> rr_out, violations |-> Append(violations, tag)]
        RiskReward(rr_final) ==
            IF rr_final = None THEN Neutral(rr_final, "rr_calc")
            ELSE IF ~RrInRange(rr_final.v) THEN Neutral(rr_final, "rr_range")
            ELSE [decision |-> decision, rr |-> rr_final, violations |-> violations]
        Parsed(pe, ps, pt) ==
            IF ~(pe.ok /\ ps.ok /\ pt.ok) THEN Neutral(rr, "invalid_numbers")
            ELSE IF decision = LONG /\ ~LongBoundsOk(ps.v, pe.v, pt.v)
            THEN Neutral(None, "long_bounds")
            ELSE IF decision = SHORT /\ ~ShortBoundsOk(ps.v, pe.v, pt.v)
            THEN Neutral(None, "short_bounds")
            ELSE CHOOSE g \in {RiskReward(rr_final) :
                                 rr_final \in {compute_risk_reward(decision, pe.v, ps.v, pt.v)}} : TRUE
    IN  IF decision = NEUTRAL
        THEN [decision |-> NEUTRAL, rr |-> None, violations |-> violations]
        ELSE CHOOSE g \in {Parsed(pe, ps, pt) :
                             pe \in {PyFloat(entry)}, ps \in {PyFloat(sl)}, pt \in {PyFloat(tp)}} : TRUE

\* Lines 38-95: the decision-kind check, the confidence check and the price
\* gates.  raised is TRUE when "confidence_val < confidence_threshold" raises
\* TypeError: the threshold read from raw is None or a string.
Gates(d) ==
    LET Checked(confidence_threshold, decision0, confidence_val) ==
            LET kindOk     == decision0 \in DecisionKinds
                violations == IF kindOk THEN <<>> ELSE <<"invalid_decision">>
                decision1  == IF kindOk THEN decision0 ELSE NEUTRAL
                decision2  ==
                    IF Lt[confidence_val, confidence_threshold.v] THEN NEUTRAL ELSE decision1
                After(g) ==
                    [raised |-> FALSE, decision |-> g.decision, rr |-> g.rr,
                     violations |-> g.violations, confidence_val |-> confidence_val]
            IN  IF confidence_threshold.t # "num"
                THEN [raised |-> TRUE, decision |-> NEUTRAL, rr |-> None,
                      violations |-> violations, confidence_val |-> confidence_val]
                ELSE CHOOSE r \in {After(g) :
                        g \in {PriceGates(decision2, Get(d, "entry_price", None),
                                          Get(d, "sl_price", None), Get(d, "tp_price", None),
                                          Get(d, "risk_reward_ratio", None), violations)}} : TRUE
    IN  CHOOSE r \in {Checked(thr, dec, conf) :
            thr  \in {Get(d, "confidence_threshold", Num(F(DefaultConfidenceThreshold)))},
            dec  \in {NormalizeDecision(d)},
            conf \in {ConfidenceVal(Get(d, "confidence_score", None))}} : TRUE

\* base_sl_pct = max(user_sl_pct, 0.01)
BaseSlPct(u) == PyMax[u, SlFloor]

\* Mutant of Clamp: only the lower bound is applied.
Clamp_LowerOnly(x, lo, hi) == PyMax[x, lo]

\* min(max(x, lo), hi)
Clamp(x, lo, hi) == PyMin[PyMax[x, lo], hi]

\* Lines 98-106: the stop-loss percentage position sizing divides by.
AdjustedSlPct(sl_adj_pct_raw, u, min_sl_factor, max_sl_factor) ==
    LET Clamped(base_sl_pct, p) ==
            Clamp(IF sl_adj_pct_raw # None /\ p.ok THEN p.v ELSE base_sl_pct,
                  Mul[base_sl_pct, min_sl_factor], Mul[base_sl_pct, max_sl_factor])
    IN  CHOOSE r \in {Clamped(base_sl_pct, p) :
            base_sl_pct \in {BaseSlPct(u)}, p \in {PyFloat(sl_adj_pct_raw)}} : TRUE

\* (base_sl_pct / adjusted_sl_pct) * 100.0 clamped to the position-size
\* bounds, for adjusted_sl_pct # 0.
PositionSizePct(base_sl_pct, adjusted_sl_pct, min_position_size_pct, max_position_size_pct) ==
    Clamp(Mul[Div[base_sl_pct, adjusted_sl_pct], F(100)],
          min_position_size_pct, max_position_size_pct)

sanitize_signal_response(d, u, min_sl_factor, max_sl_factor, min_position_size_pct, max_position_size_pct) ==
    LET Sanitized(g, adjusted_sl_pct, live) ==
            IF g.raised THEN Raise("TypeError")
            ELSE IF live /\ IsZero(adjusted_sl_pct) THEN Raise("ZeroDivisionError")
            ELSE Return(
                [decision         |-> Str(g.decision),
                 confidence_score |-> Num(g.confidence_val),
                 entry_price      |-> IF live THEN Get(d, "entry_price", None) ELSE None,
                 sl_price         |-> IF live THEN Get(d, "sl_price", None) ELSE None,
                 tp_price         |-> IF live THEN Get(d, "tp_price", None) ELSE None,
                 risk_reward_ratio |-> g.rr,
                 reasoning        |-> Get(d, "reasoning", None),
                 adjusted_sl_percentage |->
                     IF live THEN Num(adjusted_sl_pct) ELSE None,
                 position_size_pct_of_equity |->
                     IF live
                     THEN Num(PositionSizePct(BaseSlPct(u), adjusted_sl_pct,
                                              min_position_size_pct,
                                              max_position_size_pct))
                     ELSE None,
                 violations       |-> g.violations])
    IN  CHOOSE r \in {Sanitized(g, a, g.decision # NEUTRAL) :
            g \in {Gates(d)},
            a \in {AdjustedSlPct(Get(d, "adjusted_sl_percentage", None), u,
                                 min_sl_factor, max_sl_factor)}} : TRUE

---------------------------------------------------------------------------
(* The inputs of the calls explored *)

\* Prices lie within MaxTick ticks of 100; the far prices probe the ends of
\* the accepted risk/reward range.
MaxTick == 2

\* Confidence scores lie within MaxConfStep steps of 5 around 70.
MaxConfStep == 1

\* Proposed and user stop-loss percentages are multiples of 1/2 up to MaxHalves/2.
MaxHalves == 4

\* Marks a key the dict does not hold.
Absent == [t |-> "absent", v |-> F(0), s |-> <<>>]

RawKeys ==
    {"decision", "confidence_score", "entry_price", "sl_price", "tp_price",
     "adjusted_sl_percentage", "reasoning", "confidence_threshold",
     "risk_reward_ratio"}

\* The dict holding the keys of the record f whose value is not Absent.
MkRaw(f) == [key \in {x \in DOMAIN f : f[x] # Absent} |-> f[key]]

DecisionOpts ==
    {Absent, None, Str(LONG), Str(<<"l", "o", "n", "g">>), Str(<<"L", "o", "n", "g">>),
     Str(SHORT), Str(<<"s", "h", "o", "r", "t">>), Str(NEUTRAL),
     Str(<<"h", "o", "l", "d">>), Str(<<" ", "L", "O", "N", "G">>), Num(F(1))}

ConfidenceOpts ==
    {Num(F(70 + 5 * i)) : i \in -MaxConfStep .. MaxConfStep}
    \cup {Num(F(90)), Str(<<"9", "0">>), Str(<<"a", "b", "c">>), Str(<<"n", "a", "n">>),
          None, Absent}

ThresholdOpts == {Absent, Num(F(75)), Num(F(60)), Num(F(0)), Str(<<"7", "0">>), None}

RrOpts == {Absent, Num(F(2)), Str(<<"2">>)}

ReasoningOpts == {Absent, Str(<<"o", "k">>)}

NearPrices == {Num(F(100 + i)) : i \in -MaxTick .. MaxTick}

FarPrices == {Num(F(89)), Num(F(90)), Num(F(110)), Num(F(111)), Num(Rat[199, 2])}

EntryOpts ==
    {Num(F(100)), Str(<<"1", "0", "0">>), Str(<<" ", "1", "0", "0", " ">>),
     Str(<<"a", "b", "c">>), None, Absent, Num(NaN)}

PriceOpts ==
    NearPrices \cup FarPrices
    \cup {Str(<<"9", "9">>), Str(<<"1", "0", "1", ".", "5">>), Str(<<"x">>), None,
          Str(<<"i", "n", "f">>), Str(<<"-", "i", "n", "f">>), Num(NaN)}

AdjustedOpts ==
    {Num(Rat[i, 2]) : i \in -1 .. MaxHalves + 1}
    \cup {Absent, None, Str(<<"a", "b", "c">>), Str(<<"2">>), Str(<<"n", "a", "n">>),
          Str(<<"i", "n", "f">>)}

UserOpts == {Rat[i, 2] : i \in -1 .. MaxHalves} \cup {Rat[1, 200]}

\* <<min_sl_factor, max_sl_factor>>: the defaults first.
FactorOpts ==
    {<<DefaultMinSlFactor, DefaultMaxSlFactor>>, <<F(0), DefaultMaxSlFactor>>,
     <<F(0), F(0)>>, <<F(-1), F(1)>>, <<DefaultMaxSlFactor, DefaultMinSlFactor>>}

\* <<min_position_size_pct, max_position_size_pct>>: the defaults first.
PositionOpts ==
    {<<DefaultMinPositionSizePct, DefaultMaxPositionSizePct>>, <<F(80), F(90)>>,
     <<F(120), F(150)>>, <<DefaultMaxPositionSizePct, DefaultMinPositionSizePct>>}

DefaultCfg ==
    [min_sl_factor |-> DefaultMinSlFactor, max_sl_factor |-> DefaultMaxSlFactor,
     min_position_size_pct |-> DefaultMinPositionSizePct,
     max_position_size_pct |-> DefaultMaxPositionSizePct]

\* <<entry_price, sl_price, tp_price>>: a LONG setup, a SHORT setup, bad numbers.
PriceTriples ==
    {<<Num(F(100)), Num(F(99)), Num(F(102))>>, <<Num(F(100)), Num(F(101)), Num(F(98))>>,
     <<Str(<<"a", "b", "c">>), Num(F(99)), Num(F(102))>>}

\* Calls that vary the decision, the confidence and the threshold key.
InitDecision ==
    \E dec \in DecisionOpts, conf \in ConfidenceOpts, thr \in ThresholdOpts,
       rr \in RrOpts, why \in ReasoningOpts, tr \in PriceTriples :
        /\ raw = MkRaw([decision |-> dec, confidence_score |-> conf,
                        entry_price |-> tr[1], sl_price |-> tr[2], tp_price |-> tr[3],
                        adjusted_sl_percentage |-> Absent, reasoning |-> why,
                        confidence_threshold |-> thr, risk_reward_ratio |-> rr])
        /\ user_sl_pct = F(1)
        /\ cfg = DefaultCfg

\* Calls that vary the three prices.
InitPrices ==
    \E dec \in {Str(LONG), Str(<<"s", "h", "o", "r", "t">>)},
       conf \in {Num(F(90)), Num(F(65))}, rr \in {Absent, Num(F(2))},
       entry \in EntryOpts, sl \in PriceOpts, tp \in PriceOpts :
        /\ raw = MkRaw([decision |-> dec, confidence_score |-> conf,
                        entry_price |-> entry, sl_price |-> sl, tp_price |-> tp,
                        adjusted_sl_percentage |-> Absent, reasoning |-> Absent,
                        confidence_threshold |-> Absent, risk_reward_ratio |-> rr])
        /\ user_sl_pct = F(1)
        /\ cfg = DefaultCfg

\* Calls that vary the stop-loss inputs and the keyword arguments.
InitSizing ==
    \E dec \in {Str(LONG), Str(SHORT)}, conf \in {Num(F(90)), Num(F(65))},
       adj \in AdjustedOpts, u \in UserOpts, fac \in FactorOpts, pos \in PositionOpts :
        /\ raw = MkRaw([decision |-> dec, confidence_score |-> conf,
                        entry_price |-> Num(F(100)),
                        sl_price |-> IF dec = Str(LONG) THEN Num(F(99)) ELSE Num(F(101)),
                        tp_price |-> IF dec = Str(LONG) THEN Num(F(102)) ELSE Num(F(98)),
                        adjusted_sl_percentage |-> adj, reasoning |-> Absent,
                        confidence_threshold |-> Absent, risk_reward_ratio |-> Absent])
        /\ user_sl_pct = u
        /\ cfg = [min_sl_factor |-> fac[1], max_sl_factor |-> fac[2],
                  min_position_size_pct |-> pos[1], max_position_size_pct |-> pos[2]]

Pending == [kind |-> "pending", value |-> ""]

\* No call of compute_risk_reward is under way.
NoArgs == [decision |-> <<>>, entry |-> F(0), sl |-> F(0), tp |-> F(0)]

\* No request is being handled.
NoRequest ==
    /\ settings = [llm_provider |-> "openai",
                   confidence_threshold |-> F(DefaultConfidenceThreshold)]
    /\ llm = [client |-> "none"]
    /\ market_data = Pending
    /\ llm_calls = 0
    /\ response = [status |-> 0]

\* The float arguments of the direct calls of compute_risk_reward.
RiskRewardPrices ==
    {F(100 + i) : i \in -MaxTick .. MaxTick} \cup {Inf(1), Inf(-1), NaN}

\* Direct calls compute_risk_reward(decision, entry, sl, tp).
InitRiskReward ==
    \E decision \in DecisionKinds \cup {<<"H", "O", "L", "D">>},
       entry \in RiskRewardPrices, sl \in RiskRewardPrices, tp \in RiskRewardPrices :
        /\ args = [decision |-> decision, entry |-> entry, sl |-> sl, tp |-> tp]
        /\ raw = MkRaw([decision |-> Absent])
        /\ user_sl_pct = F(1)
        /\ cfg = DefaultCfg
        /\ pc = "call_rr"

Init ==
    /\ \/ (InitDecision \/ InitPrices \/ InitSizing) /\ pc = "call" /\ args = NoArgs
       \/ InitRiskReward
    /\ result = Pending
    /\ NoRequest

\* The call sanitize_signal_response(raw, user_sl_pct, **cfg).
Call ==
    /\ pc = "call"
    /\ result' = sanitize_signal_response(raw, user_sl_pct, cfg.min_sl_factor,
                                          cfg.max_sl_factor, cfg.min_position_size_pct,
                                          cfg.max_position_size_pct)
    /\ pc' = "done"
    /\ UNCHANGED <<raw, user_sl_pct, cfg, args, handler_vars>>

\* The call compute_risk_reward(**args).
CallRiskReward ==
    /\ pc = "call_rr"
    /\ result' = Return(compute_risk_reward(args.decision, args.entry, args.sl, args.tp))
    /\ pc' = "done_rr"
    /\ UNCHANGED <<raw, user_sl_pct, cfg, args, handler_vars>>

Next == Call \/ CallRiskReward

Spec == Init /\ [][Next]_vars

Returned == pc = "done" /\ result.kind = "return"

Out == result.value

---------------------------------------------------------------------------
(* app/llm.py and app/main.py *)

Providers == {"openai", "anthropic"}

\* The call sanitize_signal_response(*positional) with no keyword arguments:
\* Python binds raw and user_sl_pct before the body runs and raises TypeError
\* when a required argument is missing.
sanitize_signal_response_call(positional) ==
    IF Len(positional) # 2 THEN Raise("TypeError")
    ELSE sanitize_signal_response(positional[1], positional[2],
                                  DefaultMinSlFactor, DefaultMaxSlFactor,
                                  DefaultMinPositionSizePct, DefaultMaxPositionSizePct)

\* raw["confidence_threshold"] = self.confidence_threshold
WithThreshold(d, confidence_threshold) ==
    [key \in DOMAIN d \cup {"confidence_threshold"} |->
        IF key = "confidence_threshold" THEN Num(confidence_threshold) ELSE d[key]]

\* LLMClient.generate_signal: generated is how the provider call ended, the
\* parsed JSON object or an exception.
generate_signal(provider, generated, confidence_threshold) ==
    IF provider \notin Providers THEN Raise("ValueError")
    ELSE IF generated.kind = "raise" THEN generated
    ELSE sanitize_signal_response_call(<<WithThreshold(generated.value, confidence_threshold)>>)

\* A field of SignalResponse after validation: ok = FALSE is a ValidationError.
Valid(value) == [ok |-> TRUE, v |-> value]

Invalid == [ok |-> FALSE, v |-> None]

\* A float field: numbers and numeric strings become floats.
ValidFloat(x) ==
    LET p == PyFloat(x) IN IF p.ok THEN Valid(Num(p.v)) ELSE Invalid

\* An Optional[float] field.
ValidOptionalFloat(x) == IF x = None THEN Valid(None) ELSE ValidFloat(x)

\* Mutant of ValidDecision: the decision is accepted as written.
ValidDecision_AsWritten(x) == IF x.t = "str" THEN Valid(x) ELSE Invalid

\* decision: str with validate_decision: upper-cased, one of the three kinds.
ValidDecision(x) ==
    IF x.t # "str" THEN Invalid
    ELSE IF Upper(x.s) \in DecisionKinds THEN Valid(Str(Upper(x.s)))
    ELSE Invalid

\* reasoning: Optional[str]
ValidReasoning(x) == IF x.t \in {"null", "str"} THEN Valid(x) ELSE Invalid

\* violations: list[str]
ValidViolations(x) == IF x.t = "list" THEN Valid(x) ELSE Invalid

SignalKeys ==
    {"decision", "confidence_score", "entry_price", "sl_price", "tp_price",
     "risk_reward_ratio"}

\* Lines 95-107 of the handler: the response built from the dict sanitized
\* and the fetched market data.  A missing key (KeyError) or a field that
\* fails validation (ValidationError) is an exception the handler does not
\* catch: the server answers 500.
SignalResponse(sanitized, market) ==
    LET Built(fields) ==
            IF \E key \in DOMAIN fields : ~fields[key].ok THEN [status |-> 500]
            ELSE [status |-> 200,
                  body   |-> [decision          |-> fields.decision.v,
                              confidence_score  |-> fields.confidence_score.v,
                              entry_price       |-> fields.entry_price.v,
                              sl_price          |-> fields.sl_price.v,
                              tp_price          |-> fields.tp_price.v,
                              risk_reward_ratio |-> fields.risk_reward_ratio.v,
                              reasoning         |-> fields.reasoning.v,
                              violations        |-> fields.violations.v,
                              timeframes        |-> market.timeframes,
                              order_book        |-> market.order_book,
                              derivatives       |-> market.derivatives]]
    IN  IF ~(SignalKeys \subseteq DOMAIN sanitized) THEN [status |-> 500]
        ELSE CHOOSE r \in {Built(fields) : fields \in {
                [decision          |-> ValidDecision(sanitized["decision"]),
                 confidence_score  |-> ValidFloat(sanitized["confidence_score"]),
                 entry_price       |-> ValidOptionalFloat(sanitized["entry_price"]),
                 sl_price          |-> ValidOptionalFloat(sanitized["sl_price"]),
                 tp_price          |-> ValidOptionalFloat(sanitized["tp_price"]),
                 risk_reward_ratio |-> ValidOptionalFloat(sanitized["risk_reward_ratio"]),
                 reasoning         |-> ValidReasoning(Get(sanitized, "reasoning", None)),
                 violations        |-> ValidViolations(Get(sanitized, "violations", List(<<>>)))]}} : TRUE

\* HTTPException(status_code=502, detail=...)
BadGateway(detail) == [status |-> 502, detail |-> detail]

\* What fetch_market_data returns: two snapshots of the market.
MarketDataOpts ==
    {[timeframes |-> "timeframes_a", order_book |-> "order_book_a", derivatives |-> "derivatives_a"],
     [timeframes |-> "timeframes_b", order_book |-> "order_book_b", derivatives |-> "derivatives_b"]}

\* The JSON objects the provider answers with.
ObjectOpts ==
    {MkRaw([decision |-> dec, confidence_score |-> conf,
            entry_price |-> tr[1], sl_price |-> tr[2], tp_price |-> tr[3],
            reasoning |-> Str(<<"o", "k">>)]) :
        dec \in {Str(LONG), Str(<<"s", "h", "o", "r", "t">>), Str(NEUTRAL)},
        conf \in {Num(F(90)), Num(F(65))}, tr \in PriceTriples}

\* The dicts returned by a client put in place of LLMClient through
\* app.dependency_overrides, as FakeLLM in tests/test_signal_api.py.
StubDicts ==
    {MkRaw([decision |-> dec, confidence_score |-> conf,
            entry_price |-> tr[1], sl_price |-> tr[2], tp_price |-> tr[3],
            risk_reward_ratio |-> rr, reasoning |-> Str(<<"o", "k">>),
            violations |-> List(<<>>)]) :
        dec \in {Str(LONG), Str(<<"l", "o", "n", "g">>), Str(NEUTRAL),
                 Str(<<"h", "o", "l", "d">>)},
        conf \in {Num(F(90)), Str(<<"9", "0">>), None},
        rr \in {Num(F(3)), Str(<<"2">>), Str(<<"a", "b", "c">>), None, Absent},
        tr \in {<<Num(F(100)), Num(F(99)), Num(F(103))>>, <<None, None, None>>}}

\* A request handled with the client get_llm_client builds from the settings.
InitClient ==
    \E provider \in Providers \cup {"gemini"}, threshold \in {F(70), F(60)},
       provider_ok \in BOOLEAN, object \in ObjectOpts :
        /\ settings = [llm_provider |-> provider, confidence_threshold |-> threshold]
        /\ llm = [client |-> "LLMClient", provider_ok |-> provider_ok]
        /\ raw = object

\* A request handled with a client put in its place.
InitStub ==
    \E outcome \in {Return(d) : d \in StubDicts} \cup {Raise("RuntimeError")} :
        /\ settings = [llm_provider |-> "openai",
                       confidence_threshold |-> F(DefaultConfidenceThreshold)]
        /\ llm = [client |-> "stub", outcome |-> outcome]
        /\ raw = MkRaw([decision |-> Absent])

\* POST /signal with a valid body (sl_percentage > 0).
InitSignal ==
    /\ InitClient \/ InitStub
    /\ user_sl_pct \in {F(1), Rat[1, 2]}
    /\ cfg = DefaultCfg
    /\ args = NoArgs
    /\ pc = "fetch"
    /\ result = Pending
    /\ market_data = Pending
    /\ llm_calls = 0
    /\ response = [status |-> 0]

\* Lines 77-78: fetch_market_data returns.
FetchMarketData ==
    /\ pc = "fetch"
    /\ \E market \in MarketDataOpts : market_data' = Return(market)
    /\ pc' = "generate"
    /\ UNCHANGED <<raw, user_sl_pct, cfg, args, result, settings, llm, llm_calls, response>>

\* Lines 77-80: fetch_market_data raises; the handler answers 502.
FetchFails ==
    /\ pc = "fetch"
    /\ market_data' = Raise("Exception")
    /\ response' = BadGateway("Failed to fetch market data")
    /\ pc' = "responded"
    /\ UNCHANGED <<raw, user_sl_pct, cfg, args, result, settings, llm, llm_calls>>

\* Lines 82-93: llm.generate_signal(llm_input); an exception is answered
\* with 502.  LLMClient stores the threshold in the object the provider
\* returned (llm.py line 77).
GenerateSignal ==
    /\ pc = "generate"
    /\ llm_calls' = llm_calls + 1
    /\ result' =
          IF llm.client = "LLMClient"
          THEN generate_signal(settings.llm_provider,
                               IF llm.provider_ok THEN Return(raw) ELSE Raise("RuntimeError"),
                               settings.confidence_threshold)
          ELSE llm.outcome
    /\ raw' =
          IF llm.client = "LLMClient" /\ settings.llm_provider \in Providers /\ llm.provider_ok
          THEN WithThreshold(raw, settings.confidence_threshold)
          ELSE raw
    /\ IF result'.kind = "raise"
       THEN response' = BadGateway("LLM generation failed") /\ pc' = "responded"
       ELSE response' = response /\ pc' = "respond"
    /\ UNCHANGED <<user_sl_pct, cfg, args, settings, llm, market_data>>

\* Lines 95-107: the response is built and returned.
Respond ==
    /\ pc = "respond"
    /\ response' = SignalResponse(result.value, market_data.value)
    /\ pc' = "responded"
    /\ UNCHANGED <<raw, user_sl_pct, cfg, args, result, settings, llm, market_data, llm_calls>>

NextSignal == FetchMarketData \/ FetchFails \/ GenerateSignal \/ Respond

SpecSignal == InitSignal /\ [][NextSignal]_vars

---------------------------------------------------------------------------
(* Vocabulary of the properties *)

Range(seq) == {seq[i] : i \in DOMAIN seq}

\* a and b are the same text up to the case of the letters a-z.
SameIgnoringCase(a, b) ==
    /\ Len(a) = Len(b)
    /\ \A i \in DOMAIN a :
        \/ a[i] = b[i]
        \/ \E j \in DOMAIN LowerLetters :
              {a[i], b[i]} = {LowerLetters[j], UpperLetters[j]}

\* The text of the proposed decision: "" when the key is missing.
DecisionText == IF "decision" \in DOMAIN raw THEN PyStr(raw["decision"]) ELSE <<>>

ProposesKind(kind) == SameIgnoringCase(DecisionText, kind)

\* The three prices as float() reads them.
EntryF == PyFloat(Get(raw, "entry_price", None))

SlF == PyFloat(Get(raw, "sl_price", None))

TpF == PyFloat(Get(raw, "tp_price", None))

PricesParse == EntryF.ok /\ SlF.ok /\ TpF.ok

\* The threshold in force and the confidence as parsed (0 on a parse failure).
Threshold == Get(raw, "confidence_threshold", Num(F(DefaultConfidenceThreshold)))

ConfidenceF == PyFloat(Get(raw, "confidence_score", None))

ParsedConfidence == IF ConfidenceF.ok THEN ConfidenceF.v ELSE F(0)

Confident == Threshold.t = "num" /\ Le[Threshold.v, ParsedConfidence]

LowConfidence == Threshold.t = "num" /\ Lt[ParsedConfidence, Threshold.v]

NullWhenNeutral ==
    {"entry_price", "sl_price", "tp_price", "risk_reward_ratio",
     "adjusted_sl_percentage", "position_size_pct_of_equity"}

SameResult(a, b) == a.kind = b.kind /\ a.value = b.value

CallWith(d) ==
    sanitize_signal_response(d, user_sl_pct, cfg.min_sl_factor, cfg.max_sl_factor,
                             cfg.min_position_size_pct, cfg.max_position_size_pct)

---------------------------------------------------------------------------
(* Properties *)

\* C1: whenever the call returns decision NEUTRAL, entry_price, sl_price,
\* tp_price, risk_reward_ratio, adjusted_sl_percentage and
\* position_size_pct_of_equity are all null, on every path to NEUTRAL.
C1_NeutralNulls ==
    (Returned /\ Out.decision = Str(NEUTRAL))
        => \A key \in NullWhenNeutral : Out[key] = None

\* C2: with the default factors and position-size bounds every call returns
\* a dict holding the ten output keys; no call ends in an exception.
C2_Total ==
    (pc = "done" /\ cfg = DefaultCfg)
        => (result.kind = "return" /\ DOMAIN Out = OutputKeys)

\* C3: the returned decision is LONG, SHORT or NEUTRAL; a proposed decision
\* that is none of the three up to case (a missing key included) returns
\* NEUTRAL tagged invalid_decision; long, Long and LONG are all taken as LONG.
C3_DecisionKind ==
    Returned =>
        /\ Out.decision \in {Str(LONG), Str(SHORT), Str(NEUTRAL)}
        /\ (\A kind \in DecisionKinds : ~ProposesKind(kind))
              => (/\ Out.decision = Str(NEUTRAL)
                  /\ "invalid_decision" \in Range(Out.violations))
        /\ ProposesKind(LONG)
              => (/\ "invalid_decision" \notin Range(Out.violations)
                  /\ Out.decision \in {Str(LONG), Str(NEUTRAL)}
                  /\ SameResult(result, CallWith([raw EXCEPT !["decision"] = Str(LONG)])))

C3_Witness ==
    /\ Returned
    /\ DecisionText = <<"L", "o", "n", "g">>
    /\ Out.decision = Str(LONG)

\* C4: a returned LONG has sl < entry < tp and a returned SHORT has
\* tp < entry < sl on the parsed prices; a confident LONG (SHORT) proposal
\* whose parsed prices break the ordering returns NEUTRAL tagged long_bounds
\* (short_bounds).
C4_Ordering ==
    Returned =>
        /\ Out.decision = Str(LONG)
              => (PricesParse /\ Lt[SlF.v, EntryF.v] /\ Lt[EntryF.v, TpF.v])
        /\ Out.decision = Str(SHORT)
              => (PricesParse /\ Lt[TpF.v, EntryF.v] /\ Lt[EntryF.v, SlF.v])
        /\ (/\ ProposesKind(LONG) /\ Confident /\ PricesParse
            /\ ~(Lt[SlF.v, EntryF.v] /\ Lt[EntryF.v, TpF.v]))
              => (/\ Out.decision = Str(NEUTRAL)
                  /\ "long_bounds" \in Range(Out.violations))
        /\ (/\ ProposesKind(SHORT) /\ Confident /\ PricesParse
            /\ ~(Lt[TpF.v, EntryF.v] /\ Lt[EntryF.v, SlF.v]))
              => (/\ Out.decision = Str(NEUTRAL)
                  /\ "short_bounds" \in Range(Out.violations))

C4_Witness ==
    /\ Returned
    /\ Out.decision = Str(SHORT)
    /\ raw["sl_price"] = Str(<<"1", "0", "1", ".", "5">>)
    /\ raw["tp_price"] = Num(F(98))
    /\ raw["entry_price"] = Str(<<" ", "1", "0", "0", " ">>)

C6_RrWithinRange ==
    (Returned /\ Out.risk_reward_ratio # None)
        => (/\ Out.risk_reward_ratio.t = "num"
            /\ Le[F(RrMin), Out.risk_reward_ratio.v]
            /\ Le[Out.risk_reward_ratio.v, F(RrMax)])

C8_PositionSize ==
    (Returned /\ Out.decision # Str(NEUTRAL)) =>
        LET base     == IF Lt[user_sl_pct, SlFloor] THEN SlFloor ELSE user_sl_pct
            adjusted == Out.adjusted_sl_percentage.v
            size     == Out.position_size_pct_of_equity.v
            wanted   == Mul[Div[base, adjusted], F(100)]
        IN  /\ Out.position_size_pct_of_equity.t = "num"
            /\ Le[cfg.min_position_size_pct, cfg.max_position_size_pct]
                  => (/\ Le[cfg.min_position_size_pct, size]
                      /\ Le[size, cfg.max_position_size_pct]
                      /\ size = (IF Lt[wanted, cfg.min_position_size_pct]
                                 THEN cfg.min_position_size_pct
                                 ELSE IF Gt(wanted, cfg.max_position_size_pct)
                                 THEN cfg.max_position_size_pct
                                 ELSE wanted))
            /\ ("adjusted_sl_percentage" \notin DOMAIN raw /\ cfg = DefaultCfg)
                  => size = F(100)

\* C9: no call divides by zero, for every user_sl_pct, every proposed
\* adjusted_sl_percentage and every pair of factors: position sizing never
\* ends in ZeroDivisionError.
C9_NoDivisionByZero ==
    (pc = "done" /\ result.kind = "raise") => result.value # "ZeroDivisionError"

\* The dict d with the keys outside the seven input keys set to thr, rr, note.
WithOtherKeys(d, thr, rr, note) ==
    LET seven == DOMAIN d \ {"confidence_threshold", "risk_reward_ratio", "note"}
    IN  MkRaw([key \in seven \cup {"confidence_threshold", "risk_reward_ratio", "note"} |->
                  CASE key = "confidence_threshold" -> thr
                    [] key = "risk_reward_ratio"    -> rr
                    [] key = "note"                 -> note
                    [] OTHER                        -> d[key]])

\* C10: the result depends on the arguments and the seven keys decision,
\* confidence_score, entry_price, sl_price, tp_price, adjusted_sl_percentage,
\* reasoning only: a dict that differs in other keys gives the same result.
C10_OtherKeysIgnored ==
    pc = "done" =>
        \A thr \in ThresholdOpts, rr \in RrOpts, note \in {Absent, Str(<<"x">>)} :
            SameResult(CallWith(WithOtherKeys(raw, thr, rr, note)), result)

\* The fields of the output out that are not null, as a new raw mapping.
Refeed(out) ==
    [key \in {k \in OutputKeys : k = "violations" \/ out[k] # None} |->
        IF key = "violations" THEN List(out.violations) ELSE out[key]]

\* C11: when a call returns a decision other than NEUTRAL, the call on the
\* non-null fields of its output, with the same user_sl_pct and keyword
\* arguments, returns the same decision, entry_price, sl_price, tp_price and
\* risk_reward_ratio, with empty violations.
C11_Idempotent ==
    (Returned /\ Out.decision # Str(NEUTRAL)) =>
        LET again == CallWith(Refeed(Out))
        IN  /\ again.kind = "return"
            /\ \A key \in {"decision", "entry_price", "sl_price", "tp_price",
                           "risk_reward_ratio"} : again.value[key] = Out[key]
            /\ again.value.violations = <<>>

\* C12: compute_risk_reward returns null for NEUTRAL and for a LONG or SHORT
\* with risk <= 0 or reward <= 0, and otherwise reward / risk, strictly
\* positive (risk = entry - sl, reward = tp - entry for LONG; risk = sl - entry,
\* reward = entry - tp for SHORT); a returned decision other than NEUTRAL
\* carries this ratio of the parsed prices as risk_reward_ratio, whatever
\* risk_reward_ratio raw holds.
C12_RiskReward ==
    LET Risk(decision, entry, sl) ==
            IF decision = LONG THEN Sub[entry, sl] ELSE Sub[sl, entry]
        Reward(decision, entry, tp) ==
            IF decision = LONG THEN Sub[tp, entry] ELSE Sub[entry, tp]
        Ratio(decision, entry, sl, tp) ==
            Div[Reward(decision, entry, tp), Risk(decision, entry, sl)]
    IN  /\ (pc = "done_rr" /\ args.decision = NEUTRAL) => result.value = None
        /\ (pc = "done_rr" /\ args.decision \in {LONG, SHORT}) =>
              IF \/ Le[Risk(args.decision, args.entry, args.sl), F(0)]
                 \/ Le[Reward(args.decision, args.entry, args.tp), F(0)]
              THEN result.value = None
              ELSE /\ result.value = Num(Ratio(args.decision, args.entry, args.sl, args.tp))
                   /\ Gt(result.value.v, F(0))
        /\ (Returned /\ Out.decision # Str(NEUTRAL)) =>
              /\ PricesParse
              /\ Out.risk_reward_ratio =
                    Num(Ratio(Out.decision.s, EntryF.v, SlF.v, TpF.v))
              /\ Gt(Out.risk_reward_ratio.v, F(0))

\* C13: a returned decision other than NEUTRAL carries entry_price, sl_price
\* and tp_price as numbers, not strings, also when raw holds them as numeric
\* strings; the three are all null or all non-null.
C13_NumericPrices ==
    Returned =>
        /\ Out.decision # Str(NEUTRAL)
              => \A key \in {"entry_price", "sl_price", "tp_price"} : Out[key].t = "num"
        /\ Cardinality({Out[key] = None : key \in {"entry_price", "sl_price", "tp_price"}}) = 1

\* The violation tags of sanitize_signal_response.
ViolationTags ==
    {"invalid_decision", "invalid_numbers", "long_bounds", "short_bounds",
     "rr_calc", "rr_range"}

\* The strict ordering of the parsed prices for the decision kind.
OrderingHolds(kind) ==
    /\ PricesParse
    /\ IF kind = LONG THEN Lt[SlF.v, EntryF.v] /\ Lt[EntryF.v, TpF.v]
       ELSE Lt[TpF.v, EntryF.v] /\ Lt[EntryF.v, SlF.v]

\* reward / risk of the parsed prices for the decision kind.
ParsedRatio(kind) ==
    IF kind = LONG THEN Div[Sub[TpF.v, EntryF.v], Sub[EntryF.v, SlF.v]]
    ELSE Div[Sub[EntryF.v, TpF.v], Sub[SlF.v, EntryF.v]]

RatioAccepted(kind) ==
    /\ OrderingHolds(kind)
    /\ Le[F(RrMin), ParsedRatio(kind)]
    /\ Le[ParsedRatio(kind), F(RrMax)]

\* C15: the call returns a decision D other than NEUTRAL exactly when the
\* proposed decision is D in {LONG, SHORT} up to case, the confidence (0.0
\* when unparsable) is at least the threshold, the three prices parse, the
\* strict ordering for D holds and reward / risk lies in the closed range
\* from 1 to 10; otherwise it returns NEUTRAL, and the violations are the tag
\* of the first gate that failed in the order decision kind, confidence (no
\* tag), numeric parse, bounds, risk/reward.
C15_GateCharacterization ==
    Returned =>
        LET Passes(kind) ==
                /\ ProposesKind(kind)
                /\ Confident
                /\ PricesParse
                /\ OrderingHolds(kind)
                /\ RatioAccepted(kind)
            Tags(kind) ==
                IF ~Confident THEN <<>>
                ELSE IF ~PricesParse THEN <<"invalid_numbers">>
                ELSE IF ~OrderingHolds(kind)
                THEN IF kind = LONG THEN <<"long_bounds">> ELSE <<"short_bounds">>
                ELSE IF ~RatioAccepted(kind) THEN <<"rr_range">>
                ELSE <<>>
        IN  /\ \A kind \in {LONG, SHORT} : (Out.decision = Str(kind)) <=> Passes(kind)
            /\ (~Passes(LONG) /\ ~Passes(SHORT)) => Out.decision = Str(NEUTRAL)
            /\ Out.violations =
                  (IF ProposesKind(LONG) THEN Tags(LONG)
                   ELSE IF ProposesKind(SHORT) THEN Tags(SHORT)
                   ELSE IF ProposesKind(NEUTRAL) THEN <<>>
                   ELSE <<"invalid_decision">>)

\* C16: a call leaves raw as it was, and when it returns, whatever the
\* decision, the output reasoning is raw's reasoning (null when the key is
\* missing) and the output confidence_score is the parsed confidence, 0.0
\* when it does not parse.
C16_FramePassthrough ==
    [][pc = "call" =>
         /\ raw' = raw
         /\ result'.kind = "return" =>
               /\ result'.value.reasoning = Get(raw, "reasoning", None)
               /\ result'.value.confidence_score = Num(ParsedConfidence)]_vars

C16_Witness ==
    /\ Returned
    /\ Out.decision = Str(NEUTRAL)
    /\ Out.violations = <<"invalid_decision">>
    /\ Out.reasoning = Str(<<"o", "k">>)
    /\ Get(raw, "confidence_score", None) = Str(<<"a", "b", "c">>)
    /\ Out.confidence_score = Num(F(0))

\* C18: no call returns the tag rr_calc: whenever the decision is still LONG
\* or SHORT after the confidence check and the parsed prices are strictly
\* ordered, the computed ratio is not null.
C18_RrCalcUnreachable ==
    Returned =>
        /\ "rr_calc" \notin Range(Out.violations)
        /\ \A kind \in {LONG, SHORT} :
              (ProposesKind(kind) /\ ~LowConfidence /\ OrderingHolds(kind))
                  => (/\ Out.risk_reward_ratio # None
                      /\ Out.risk_reward_ratio = Num(ParsedRatio(kind)))

C18_Witness ==
    /\ Returned
    /\ ProposesKind(SHORT)
    /\ OrderingHolds(SHORT)
    /\ Out.decision = Str(SHORT)
    /\ Out.risk_reward_ratio = Num(F(10))

\* C19: the returned violations hold at most one tag, drawn from
\* invalid_decision, invalid_numbers, long_bounds, short_bounds, rr_calc,
\* rr_range, and a returned decision other than NEUTRAL has no violations.
C19_AtMostOneTag ==
    Returned =>
        /\ Len(Out.violations) <= 1
        /\ Range(Out.violations) \subseteq ViolationTags
        /\ Out.decision # Str(NEUTRAL) => Out.violations = <<>>

C19_Witness ==
    /\ Returned
    /\ ProposesKind(LONG)
    /\ ~OrderingHolds(LONG)
    /\ Out.decision = Str(NEUTRAL)
    /\ Out.violations = <<"long_bounds">>

\* C14: once the provider call of an openai or anthropic client has returned
\* a JSON object, LLMClient.generate_signal returns the dict
\* sanitize_signal_response produces for that object under the configured
\* confidence_threshold; it does not end in an exception.
C14_GenerateCompletes ==
    (/\ llm.client = "LLMClient"
     /\ llm_calls = 1
     /\ settings.llm_provider \in Providers
     /\ llm.provider_ok)
        => (/\ result.kind = "return"
            /\ Get(raw, "confidence_threshold", None) = Num(settings.confidence_threshold)
            /\ SameResult(result, CallWith(raw)))

\* The steps of POST /signal in their order: a failed fetch is answered with
\* 502 without any call of the LLM client, the client is called only after
\* the fetch returned, an exception of the client is answered with 502, and
\* a 200 response follows a fetch and a client call that both returned and
\* carries the fetched timeframes, order_book and derivatives.
SignalStepsOrdered ==
    /\ market_data.kind = "raise" => (response.status = 502 /\ llm_calls = 0)
    /\ llm_calls > 0 => market_data.kind = "return"
    /\ result.kind = "raise" => response.status = 502
    /\ response.status = 200 =>
          /\ market_data.kind = "return"
          /\ result.kind = "return"
          /\ llm_calls = 1
          /\ response.body.timeframes = market_data.value.timeframes
          /\ response.body.order_book = market_data.value.order_book
          /\ response.body.derivatives = market_data.value.derivatives

\* C17: POST /signal takes its steps in the order fetch, LLM generation,
\* response (502 on a failed fetch with no LLM call, 502 on a failed
\* generation), and a 200 response carries decision, confidence_score and
\* risk_reward_ratio exactly as the LLM client returned them.
C17_SignalOrdering ==
    /\ SignalStepsOrdered
    /\ response.status = 200 =>
          \A key \in {"decision", "confidence_score", "risk_reward_ratio"} :
              response.body[key] = result.value[key]

\* C17, amended: as C17, but a 200 response carries the decision upper-cased
\* to one of LONG, SHORT, NEUTRAL and confidence_score and risk_reward_ratio
\* as floats (risk_reward_ratio may be null): they equal what the client
\* returned when that is a number or null, and the number a returned numeric
\* string reads as otherwise.
C17_SignalOrderingValidated ==
    /\ SignalStepsOrdered
    /\ response.status = 200 =>
          /\ response.body.decision.s \in DecisionKinds
          /\ SameIgnoringCase(response.body.decision.s, result.value["decision"].s)
          /\ response.body.confidence_score.t = "num"
          /\ response.body.risk_reward_ratio.t \in {"num", "null"}
          /\ \A key \in {"confidence_score", "risk_reward_ratio"} :
                IF result.value[key].t \in {"num", "null"}
                THEN response.body[key] = result.value[key]
                ELSE PyFloat(result.value[key]) = ParseOk(response.body[key].v)

C17_Witness ==
    /\ pc = "responded"
    /\ response.status = 200
    /\ llm_calls = 1
    /\ result.value["decision"] = Str(<<"l", "o", "n", "g">>)
    /\ response.body.decision = Str(LONG)
    /\ result.value["risk_reward_ratio"] = Str(<<"2">>)
    /\ response.body.risk_reward_ratio = Num(F(2))

====
